---- MODULE Spec2Model ----
(***************************************************************************)
(* A model of the board game engine of src/src/main.rs: the Board with its *)
(* incrementally maintained score, the move generator Board::moves, and    *)
(* the memoised search Solver::minimax driven by main.                     *)
(*                                                                         *)
(* The board is the 5 x 5 board of the source.  Two specifications bound   *)
(* the boards that are explored: Spec plays every sequence of legal moves  *)
(* whose cells are among the first RegionSize cells of RegionOrder, for at *)
(* most MaxTurn moves; SpecSearch replays the opening of a recorded legal  *)
(* game, plays every legal continuation of it, and runs the search on the  *)
(* boards it reaches.                                                      *)
(***************************************************************************)
EXTENDS Integers, Sequences, FiniteSets, TLC

WIDTH == 5
HEIGHT == 5
NEIGHBORS == 3

(* Solver::minimax stops descending at this depth *)
DEPTH_LIMIT == 5

(* bounds of Spec: the number of cells that are played on (the first       *)
(* RegionSize cells of RegionOrder) and the number of moves played         *)
RegionSize == 7
MaxTurn == 9

(* bound of SpecSearch: the number of final moves of the recorded game     *)
(* that are replaced by every legal continuation                           *)
FreePlies == 4

NCells == WIDTH * HEIGHT
Idx == 0 .. (NCells - 1)

Abs(v) == IF v < 0 THEN -v ELSE v
BoolInt(c) == IF c THEN 1 ELSE 0

(* Option<T>: None is the empty sequence, Some(x) the one-element sequence *)
None == << >>
Some(x) == <<x>>

(* main's board and turn counter; res is the value returned by the last    *)
(* call of Solver::minimax that the model made on b, if any                *)
VARIABLES b, turn, res

vars == <<b, turn, res>>

(* Board::new *)
new == [cells |-> [c \in Idx |-> 0], score |-> 0]

(* Board::neighbor_count *)
neighbor_count(cells, idx, x, y) ==
    LET piece == Abs(cells[idx])
        w == WIDTH
        h == HEIGHT
    IN    BoolInt(x > 0     /\ Abs(cells[idx - 1]) = piece)
        + BoolInt(x < w - 1 /\ Abs(cells[idx + 1]) = piece)
        + BoolInt(y > 0     /\ Abs(cells[idx - w]) = piece)
        + BoolInt(y < h - 1 /\ Abs(cells[idx + w]) = piece)

(* the cells that Board::score counts for the piece value `piece`: its     *)
(* loop adds (or subtracts) one for each of them                           *)
scoring(cells, piece) ==
    {idx \in Idx : /\ neighbor_count(cells, idx, idx % WIDTH, idx \div WIDTH) >= NEIGHBORS
                   /\ cells[idx] = piece}

(* Board::score counting the flipped pieces of player 0 only *)
score_first(bd) ==
    Cardinality(scoring(bd.cells, -1))

(* Board::score: the from-scratch recomputation, without its assertion *)
score(bd) ==
    Cardinality(scoring(bd.cells, -1)) - Cardinality(scoring(bd.cells, -2))

(* update without the flip of the piece *)
update_upright(bd, mod_idx, idx, x, y, new_place) ==
    LET piece == bd.cells[idx] IN
    IF Abs(bd.cells[idx]) # Abs(bd.cells[mod_idx]) THEN bd
    ELSE LET sum == neighbor_count(bd.cells, idx, x, y) IN
         IF sum >= NEIGHBORS
         THEN [cells |-> bd.cells,
               score |-> IF sum = NEIGHBORS \/ new_place
                         THEN (IF Abs(piece) = 1 THEN bd.score + 1
                               ELSE IF Abs(piece) = 2 THEN bd.score - 1
                               ELSE bd.score)
                         ELSE bd.score]
         ELSE bd

(* Board::update *)
update(bd, mod_idx, idx, x, y, new_place) ==
    LET piece == bd.cells[idx] IN
    IF Abs(bd.cells[idx]) # Abs(bd.cells[mod_idx]) THEN bd
    ELSE LET sum == neighbor_count(bd.cells, idx, x, y) IN
         IF sum >= NEIGHBORS
         THEN [cells |-> IF piece > 0
                         THEN [bd.cells EXCEPT ![idx] = -piece]
                         ELSE bd.cells,
               score |-> IF sum = NEIGHBORS \/ new_place
                         THEN (IF Abs(piece) = 1 THEN bd.score + 1
                               ELSE IF Abs(piece) = 2 THEN bd.score - 1
                               ELSE bd.score)
                         ELSE bd.score]
         ELSE bd

(* propagate without the update of the cell idx itself *)
propagate_others(bd, idx) ==
    LET x == idx % WIDTH
        y == idx \div WIDTH
        w == WIDTH
        h == HEIGHT
        left(c)  == IF x > 0     THEN update(c, idx, idx - 1, x - 1, y, FALSE) ELSE c
        right(c) == IF x < w - 1 THEN update(c, idx, idx + 1, x + 1, y, FALSE) ELSE c
        up(c)    == IF y > 0     THEN update(c, idx, idx - w, x, y - 1, FALSE) ELSE c
        down(c)  == IF y < h - 1 THEN update(c, idx, idx + w, x, y + 1, FALSE) ELSE c
        b1 == left(bd)
        b2 == right(b1)
        b3 == up(b2)
        b4 == down(b3)
    IN  <<b1, b2, b3, b4>>[4]

(* Board::propagate: b0 .. b4 are the board after each call of update, in  *)
(* the order of the calls                                                  *)
propagate(bd, idx) ==
    LET x == idx % WIDTH
        y == idx \div WIDTH
        w == WIDTH
        h == HEIGHT
        left(c)  == IF x > 0     THEN update(c, idx, idx - 1, x - 1, y, FALSE) ELSE c
        right(c) == IF x < w - 1 THEN update(c, idx, idx + 1, x + 1, y, FALSE) ELSE c
        up(c)    == IF y > 0     THEN update(c, idx, idx - w, x, y - 1, FALSE) ELSE c
        down(c)  == IF y < h - 1 THEN update(c, idx, idx + w, x, y + 1, FALSE) ELSE c
        b0 == update(bd, idx, idx, x, y, TRUE)
        b1 == left(b0)
        b2 == right(b1)
        b3 == up(b2)
        b4 == down(b3)
    IN  <<b0, b1, b2, b3, b4>>[5]

(* update_delete without its effect on the score *)
update_delete_keep(bd, mod_idx, idx, x, y) == bd

(* Board::update_delete without the comparison of the owners *)
update_delete_any(bd, mod_idx, idx, x, y) ==
    LET owner == Abs(bd.cells[idx])
        sum == neighbor_count(bd.cells, idx, x, y)
    IN  IF sum = NEIGHBORS
        THEN [bd EXCEPT !.score = IF owner = 1 THEN bd.score - 1
                                  ELSE IF owner = 2 THEN bd.score + 1
                                  ELSE bd.score]
        ELSE bd

(* Board::update_delete *)
update_delete(bd, mod_idx, idx, x, y) ==
    IF Abs(bd.cells[idx]) # Abs(bd.cells[mod_idx]) THEN bd
    ELSE LET owner == Abs(bd.cells[idx])
             sum == neighbor_count(bd.cells, idx, x, y)
         IN  IF sum = NEIGHBORS
             THEN [bd EXCEPT !.score = IF owner = 1 THEN bd.score - 1
                                       ELSE IF owner = 2 THEN bd.score + 1
                                       ELSE bd.score]
             ELSE bd

(* Board::propagate_delete; its assertion cells[idx] > 0 is the guard of   *)
(* the swap loops that call it                                             *)
propagate_delete(bd, idx) ==
    LET x == idx % WIDTH
        y == idx \div WIDTH
        w == WIDTH
        h == HEIGHT
        left(c)  == IF x > 0     THEN update_delete(c, idx, idx - 1, x - 1, y) ELSE c
        right(c) == IF x < w - 1 THEN update_delete(c, idx, idx + 1, x + 1, y) ELSE c
        up(c)    == IF y > 0     THEN update_delete(c, idx, idx - w, x, y - 1) ELSE c
        down(c)  == IF y < h - 1 THEN update_delete(c, idx, idx + w, x, y + 1) ELSE c
        b1 == left(bd)
        b2 == right(b1)
        b3 == up(b2)
        b4 == down(b3)
    IN  <<b1, b2, b3, b4>>[4]

(* a placement of a piece of the other player *)
place_other(bd, c, player) ==
    propagate([bd EXCEPT !.cells[c] = 2 - player], c)

(* Board::moves, body of the placement loop: the successor yielded for the *)
(* empty cell c                                                            *)
place(bd, c, player) ==
    propagate([bd EXCEPT !.cells[c] = player + 1], c)

(* a swap that exchanges the pieces and leaves them upright *)
swap_upright(bd, i, j) ==
    LET d1 == propagate_delete(bd, i)
        d2 == propagate_delete(d1, j)
        exchange(c) == [c EXCEPT !.cells[i] = c.cells[j], !.cells[j] = c.cells[i]]
        sw == exchange(d2)
        p1 == propagate(sw, i)
        p2 == propagate(p1, j)
    IN  <<d1, d2, sw, p1, p2>>[5]

(* Board::moves, body of the swap loops: the successor yielded for the     *)
(* upright cells i < j                                                     *)
swap(bd, i, j) ==
    LET d1 == propagate_delete(bd, i)
        d2 == propagate_delete(d1, j)
        exchange(c) == [c EXCEPT !.cells[i] = -(c.cells[j]), !.cells[j] = -(c.cells[i])]
        sw == exchange(d2)
        p1 == propagate(sw, i)
        p2 == propagate(p1, j)
    IN  <<d1, d2, sw, p1, p2>>[5]

(* 0 .. cells.len() - 1 in ascending order, as the loops of Board::moves   *)
(* run through it                                                          *)
cell_range == [k \in 1 .. NCells |-> k - 1]

(* Board::moves without its placements *)
place_loop_none(bd, player) == << >>

(* Board::moves, the placement loop *)
place_loop(bd, player) ==
    LET empty == SelectSeq(cell_range, LAMBDA c : bd.cells[c] = 0)
    IN  [k \in 1 .. Len(empty) |-> place(bd, empty[k], player)]

(* a skip that lets the flipped pieces pass *)
skipped_empty(bd, i) == bd.cells[i] = 0

(* Board::moves, the swap loops: the condition of their `continue` *)
skipped(bd, i) == bd.cells[i] <= 0

(* Board::moves, the swap loops: the outer loop passes the cells i that it *)
(* does not skip, in ascending order, and for each of them the inner loop  *)
(* passes the cells j from i + 1 on that it does not skip, in ascending    *)
(* order                                                                   *)
swap_loop(bd) ==
    LET passed == SelectSeq(cell_range, LAMBDA i : ~skipped(bd, i))
        n == Len(passed)
        both == [k \in 1 .. n * n |->
                    <<passed[((k - 1) \div n) + 1], passed[((k - 1) % n) + 1]>>]
        pair == SelectSeq(both, LAMBDA p : p[2] >= p[1] + 1)
    IN  [k \in 1 .. Len(pair) |-> swap(bd, pair[k][1], pair[k][2])]

(* the swaps yielded before the placements *)
moves_swaps_first(bd, player) ==
    swap_loop(bd) \o place_loop(bd, player)

(* Board::moves: the successors in the order the generator yields them *)
moves(bd, player) ==
    place_loop(bd, player) \o swap_loop(bd)

(* a 64-bit word in place of u128: 21 octal digits and one bit *)
u64_wrap(a) ==
    LET t == IF Len(a) > 22 THEN SubSeq(a, Len(a) - 21, Len(a)) ELSE a
        m == IF Len(t) = 22 THEN [t EXCEPT ![1] = t[1] % 2] ELSE t
        nz == {k \in 1 .. Len(m) : m[k] # 0}
    IN  IF nz = {} THEN << >>
        ELSE SubSeq(m, CHOOSE k \in nz : \A n \in nz : k <= n, Len(m))

(* u128 values are written in octal, most significant digit first, without *)
(* leading zeros; 128 bits are 42 octal digits and two more bits           *)
u128_wrap(a) ==
    LET t == IF Len(a) > 43 THEN SubSeq(a, Len(a) - 42, Len(a)) ELSE a
        m == IF Len(t) = 43 THEN [t EXCEPT ![1] = t[1] % 4] ELSE t
        nz == {k \in 1 .. Len(m) : m[k] # 0}
    IN  IF nz = {} THEN << >>
        ELSE SubSeq(m, CHOOSE k \in nz : \A n \in nz : k <= n, Len(m))

(* Board::hash: the fold of (a << 3) | ((e + 2) as u128) over the cells    *)
(* appends one octal digit e + 2 in 0 .. 4 per cell; bits shifted beyond   *)
(* bit 127 are lost                                                        *)
hash(bd) ==
    u128_wrap([k \in 1 .. NCells |-> bd.cells[k - 1] + 2])

(* f32 values away from zero's subnormals and infinity, which the sums and *)
(* averages of scores never reach: <<m, e>> is m * 2^e, with the 24-bit    *)
(* significand 2^23 <= |m| < 2^24, and <<0, 0>> is 0.0                     *)
Pow2(k) == 2 ^ k

(* the number of bits of 0 <= m < 2^31 *)
bit_len(m) == Cardinality({k \in 0 .. 30 : Pow2(k) <= m})

sgn(m) == IF m > 0 THEN 1 ELSE IF m < 0 THEN -1 ELSE 0

(* the f32 nearest to sign * (mag + t) * 2^e, ties to the even significand, *)
(* where 0 < t < 1 if sticky and t = 0 otherwise                            *)
f32_round(sign, mag, e, sticky) ==
    LET n == bit_len(mag)
        k == n - 24
        low == mag % Pow2(k)
        q == mag \div Pow2(k)
        half == Pow2(k - 1)
        up == low > half \/ (low = half /\ (sticky \/ q % 2 = 1))
        q2 == IF up THEN q + 1 ELSE q
    IN  IF mag = 0 THEN <<0, 0>>
        ELSE IF n <= 24 THEN <<sign * mag * Pow2(24 - n), e - (24 - n)>>
        ELSE IF q2 = Pow2(24) THEN <<sign * Pow2(23), e + k + 1>>
        ELSE <<sign * q2, e + k>>

(* i32 as f32, and usize as f32 *)
f32_from(i) == f32_round(sgn(i), Abs(i), 0, FALSE)

(* f32 addition: the significands carry six more bits, the smaller operand  *)
(* is shifted to the exponent of the larger one, and the sum is rounded     *)
f32_add(p, q) ==
    IF p[1] = 0 THEN q
    ELSE IF q[1] = 0 THEN p
    ELSE LET a == IF p[2] >= q[2] THEN p ELSE q
             c == IF p[2] >= q[2] THEN q ELSE p
             d == a[2] - c[2]
             A == Abs(a[1]) * 64
             Cf == Abs(c[1]) * 64
             C == IF d >= 31 THEN 0 ELSE Cf \div Pow2(d)
             st == IF d >= 31 THEN TRUE ELSE Cf % Pow2(d) # 0
         IN  IF sgn(a[1]) = sgn(c[1]) THEN f32_round(sgn(a[1]), A + C, a[2] - 6, st)
             ELSE IF st THEN f32_round(sgn(a[1]), A - C - 1, a[2] - 6, TRUE)
             ELSE IF A >= C THEN f32_round(sgn(a[1]), A - C, a[2] - 6, FALSE)
             ELSE f32_round(sgn(c[1]), C - A, a[2] - 6, FALSE)

(* long division of the significand by l until the quotient has 28 bits *)
RECURSIVE div_step(_, _, _, _)
div_step(q, r, e, l) ==
    IF q >= Pow2(27) THEN <<q, r, e>>
    ELSE div_step(2 * q + BoolInt(2 * r >= l), (2 * r) % l, e - 1, l)

(* the f32 that is not a number *)
NaN == <<0, 1>>

(* f32 division by l as f32, for a count l; 0.0 / 0.0 is not a number *)
f32_div(p, l) ==
    IF l = 0 /\ p[1] = 0 THEN NaN
    ELSE IF p[1] = 0 THEN p
    ELSE LET t == div_step(Abs(p[1]) \div l, Abs(p[1]) % l, p[2], l)
         IN  f32_round(sgn(p[1]), t[1], t[3], t[2] # 0)

(* the order of f32 *)
f32_lt(p, q) ==
    IF sgn(p[1]) # sgn(q[1]) THEN sgn(p[1]) < sgn(q[1])
    ELSE IF p[1] = 0 THEN FALSE
    ELSE IF p[1] > 0 THEN p[2] < q[2] \/ (p[2] = q[2] /\ p[1] < q[1])
    ELSE p[2] > q[2] \/ (p[2] = q[2] /\ p[1] < q[1])

(* an order of (i32, f32) by the average alone *)
tuple_lt_avg(s, t) == f32_lt(s[2], t[2])

(* the derived order of (i32, f32) *)
tuple_lt(s, t) == s[1] < t[1] \/ (s[1] = t[1] /\ f32_lt(s[2], t[2]))

(* player ^ 1 *)
xor1(player) == IF player % 2 = 0 THEN player + 1 ELSE player - 1

(* Solver::minimax on the memo table `cache`.  The value is the returned   *)
(* pair (val, mv) and the memo table the call leaves behind.  Two fields   *)
(* only record what happened: every memo entry carries in `by` the player  *)
(* and depth of the call that stored it, and `hits` is the set of calls    *)
(* below (and including) this one that were answered from the memo table;  *)
(* `nodes` holds, for every call below (and including) this one that ran   *)
(* the loop, the board's score, the pairs `vals` that the calls for its    *)
(* successors returned, the index `pick` of the successor kept, the        *)
(* quotient `avg` and the pair and move returned.                          *)
RECURSIVE minimax(_, _, _, _), minimax_loop(_, _, _, _)

(* the loop of minimax taking a successor only when it is better *)
minimax_loop_better(st, f, player, depth) ==
    IF st.l >= Len(f) THEN st
    ELSE LET i == f[st.l + 1]
             better(s) == IF player = 0 THEN tuple_lt(st.best_so_far, s)
                          ELSE tuple_lt(s, st.best_so_far)
             taken(s) == better(s)
             next(r, take) == [cache       |-> r.cache,
                               hits        |-> st.hits \cup r.hits,
                               nodes       |-> st.nodes \cup r.nodes,
                               vals        |-> Append(st.vals, r.val),
                               pick        |-> IF take THEN st.l + 1 ELSE st.pick,
                               child_avg   |-> f32_add(st.child_avg, r.val[2]),
                               best_so_far |-> IF take THEN r.val ELSE st.best_so_far,
                               best_board  |-> IF take THEN Some(i) ELSE st.best_board,
                               l           |-> st.l + 1]
             after(r) == next(r, taken(r.val))
         IN  minimax_loop(after(minimax(st.cache, i, xor1(player), depth + 1)),
                          f, player, depth)

(* the loop of minimax taking every successor that is not worse *)
minimax_loop_last(st, f, player, depth) ==
    IF st.l >= Len(f) THEN st
    ELSE LET i == f[st.l + 1]
             better(s) == IF player = 0 THEN tuple_lt(st.best_so_far, s)
                          ELSE tuple_lt(s, st.best_so_far)
             worse(s) == IF player = 0 THEN tuple_lt(s, st.best_so_far)
                         ELSE tuple_lt(st.best_so_far, s)
             taken(s) == st.best_board = None \/ ~worse(s)
             next(r, take) == [cache       |-> r.cache,
                               hits        |-> st.hits \cup r.hits,
                               nodes       |-> st.nodes \cup r.nodes,
                               vals        |-> Append(st.vals, r.val),
                               pick        |-> IF take THEN st.l + 1 ELSE st.pick,
                               child_avg   |-> f32_add(st.child_avg, r.val[2]),
                               best_so_far |-> IF take THEN r.val ELSE st.best_so_far,
                               best_board  |-> IF take THEN Some(i) ELSE st.best_board,
                               l           |-> st.l + 1]
             after(r) == next(r, taken(r.val))
         IN  minimax_loop(after(minimax(st.cache, i, xor1(player), depth + 1)),
                          f, player, depth)

(* Solver::minimax, the loop over the successors: st holds the locals of   *)
(* the loop and the memo table after l successors, r is what the call for *)
(* the next successor i returns                                           *)
minimax_loop(st, f, player, depth) ==
    IF st.l >= Len(f) THEN st
    ELSE LET i == f[st.l + 1]
             better(s) == IF player = 0 THEN tuple_lt(st.best_so_far, s)
                          ELSE tuple_lt(s, st.best_so_far)
             taken(s) == st.best_board = None \/ better(s)
             next(r, take) == [cache       |-> r.cache,
                               hits        |-> st.hits \cup r.hits,
                               nodes       |-> st.nodes \cup r.nodes,
                               vals        |-> Append(st.vals, r.val),
                               pick        |-> IF take THEN st.l + 1 ELSE st.pick,
                               child_avg   |-> f32_add(st.child_avg, r.val[2]),
                               best_so_far |-> IF take THEN r.val ELSE st.best_so_far,
                               best_board  |-> IF take THEN Some(i) ELSE st.best_board,
                               l           |-> st.l + 1]
             after(r) == next(r, taken(r.val))
         IN  minimax_loop(after(minimax(st.cache, i, xor1(player), depth + 1)),
                          f, player, depth)

(* minimax without the fallback to the board's score at a node without     *)
(* successors                                                              *)
minimax_no_fallback(cache, bd, player, depth) ==
    LET b_hash == hash(bd)
        b_score == bd.score
        static == <<b_score, f32_from(b_score)>>
        done(st) ==
            LET avg == f32_div(st.child_avg, st.l)
                best == <<st.best_so_far[1], avg>>
            IN  [val |-> best, mv |-> st.best_board,
                 cache |-> (b_hash :> [val |-> best, mv |-> st.best_board,
                                       by |-> [player |-> player, depth |-> depth]])
                           @@ st.cache,
                 hits |-> st.hits,
                 nodes |-> st.nodes \cup {[player |-> player, depth |-> depth,
                                           score |-> b_score, vals |-> st.vals,
                                           pick |-> st.pick, avg |-> avg, val |-> best,
                                           mv |-> st.best_board]}]
    IN  IF b_hash \in DOMAIN cache
        THEN [val |-> cache[b_hash].val, mv |-> cache[b_hash].mv, cache |-> cache,
              hits |-> {[bd |-> bd, player |-> player, depth |-> depth,
                         by |-> cache[b_hash].by, mv |-> cache[b_hash].mv]},
              nodes |-> {}]
        ELSE IF depth >= DEPTH_LIMIT
        THEN [val |-> static, mv |-> None, cache |-> cache, hits |-> {}, nodes |-> {}]
        ELSE done(minimax_loop([cache       |-> cache,
                                hits        |-> {},
                                nodes       |-> {},
                                vals        |-> << >>,
                                pick        |-> 0,
                                child_avg   |-> f32_from(0),
                                best_so_far |-> <<0, f32_from(0)>>,
                                best_board  |-> None,
                                l           |-> 0],
                               moves(bd, player), player, depth))

(* Solver::minimax *)
minimax(cache, bd, player, depth) ==
    LET b_hash == hash(bd)
        b_score == bd.score
        static == <<b_score, f32_from(b_score)>>
        done(st) ==
            LET avg == f32_div(st.child_avg, st.l)
                best == IF st.best_board = None THEN static
                        ELSE <<st.best_so_far[1], avg>>
            IN  [val |-> best, mv |-> st.best_board,
                 cache |-> (b_hash :> [val |-> best, mv |-> st.best_board,
                                       by |-> [player |-> player, depth |-> depth]])
                           @@ st.cache,
                 hits |-> st.hits,
                 nodes |-> st.nodes \cup {[player |-> player, depth |-> depth,
                                           score |-> b_score, vals |-> st.vals,
                                           pick |-> st.pick, avg |-> avg, val |-> best,
                                           mv |-> st.best_board]}]
    IN  IF b_hash \in DOMAIN cache
        THEN [val |-> cache[b_hash].val, mv |-> cache[b_hash].mv, cache |-> cache,
              hits |-> {[bd |-> bd, player |-> player, depth |-> depth,
                         by |-> cache[b_hash].by, mv |-> cache[b_hash].mv]},
              nodes |-> {}]
        ELSE IF depth >= DEPTH_LIMIT
        THEN [val |-> static, mv |-> None, cache |-> cache, hits |-> {}, nodes |-> {}]
        ELSE done(minimax_loop([cache       |-> cache,
                                hits        |-> {},
                                nodes       |-> {},
                                vals        |-> << >>,
                                pick        |-> 0,
                                child_avg   |-> f32_from(0),
                                best_so_far |-> <<0, f32_from(0)>>,
                                best_board  |-> None,
                                l           |-> 0],
                               moves(bd, player), player, depth))

(* Solver::default, and the table after main's solver.cache.clear() *)
EmptyCache == << >>

(* what the model keeps of a call of minimax on an empty memo table *)
search(bd, player, depth) ==
    LET kept(r) == [depth |-> depth, val |-> r.val, mv |-> r.mv, hits |-> r.hits,
                    nodes |-> r.nodes,
                    memo |-> IF hash(bd) \in DOMAIN r.cache
                             THEN Some(r.cache[hash(bd)]) ELSE None]
    IN  kept(minimax(EmptyCache, bd, player, depth))

(* the cells Spec plays on, in the order in which RegionSize admits them:  *)
(* an inner cell, its four neighbours, the rest of the corner, the rest    *)
RegionOrder ==
    <<6, 1, 5, 7, 11, 0, 2, 10, 12, 3, 8, 13, 15, 16, 17, 18,
      4, 9, 14, 19, 20, 21, 22, 23, 24>>

Region == {RegionOrder[k] : k \in 1 .. RegionSize}

(* a legal game recorded from the empty board to a board without a move:   *)
(* its t-th move is the Game[t]-th successor that Board::moves yields       *)
Game ==
    <<13, 12, 13, 7, 1, 16, 17, 35, 24, 3, 17, 8, 1, 15, 21, 15, 4, 5, 6, 1,
      8, 3, 25, 1, 14, 13, 8, 3, 6, 1, 7, 2, 4, 2, 2, 1>>

OpeningLen == Len(Game) - FreePlies

(* main before its loop: Board::new(), Solver::default(), turn = 0 *)
Init ==
    /\ b = new
    /\ turn = 0
    /\ res = None

(* the player to act, turn & 1, moves to the successor nb; main's          *)
(* b = br.unwrap(); turn += 1                                              *)
Take(nb) ==
    /\ b' = nb
    /\ turn' = turn + 1
    /\ res' = None

(* the player to act takes the placement that Board::moves yields for the  *)
(* empty cell c                                                            *)
Place ==
    \E c \in Region :
        /\ turn < MaxTurn
        /\ b.cells[c] = 0
        /\ Take(place(b, c, turn % 2))

(* the player to act takes the swap that Board::moves yields for the cells *)
(* i and j that its loops pass                                             *)
Swap ==
    \E i \in Region : \E j \in Region :
        /\ turn < MaxTurn
        /\ ~skipped(b, i)
        /\ j >= i + 1
        /\ ~skipped(b, j)
        /\ Take(swap(b, i, j))

Next == Place \/ Swap

Spec == Init /\ [][Next]_vars

(* the next move of the recorded game *)
Replay ==
    /\ res = None
    /\ turn < OpeningLen
    /\ Take(moves(b, turn % 2)[Game[turn + 1]])

(* after the opening, the player to act takes any successor that           *)
(* Board::moves yields                                                     *)
Continue ==
    /\ res = None
    /\ turn >= OpeningLen
    /\ LET any(f) == \E k \in 1 .. Len(f) : Take(f[k])
       IN  any(moves(b, turn % 2))

(* a call of minimax for the player to act, from the given depth, on an    *)
(* empty memo table                                                        *)
Search ==
    \E depth \in 0 .. (DEPTH_LIMIT - 1) :
        /\ res = None
        /\ turn >= OpeningLen
        /\ res' = Some(search(b, turn % 2, depth))
        /\ UNCHANGED <<b, turn>>

(* one iteration of main's loop: clear the memo table, search from depth   *)
(* 0, return if there is no move, else take the move                       *)
MainLoop ==
    /\ res = None
    /\ turn >= OpeningLen
    /\ LET advance(r) == IF r.mv = None
                          THEN res' = Some(r) /\ UNCHANGED <<b, turn>>
                          ELSE Take(r.mv[1])
       IN  advance(search(b, turn % 2, 0))

NextSearch == Replay \/ Continue \/ Search \/ MainLoop

SpecSearch == Init /\ [][NextSearch]_vars

(* the plays of the game: the loop of main, where after the opening a move *)
(* is the one the search returns or any other successor, and where the     *)
(* loop goes on as long as it has not returned                             *)
Play == Replay \/ Continue \/ MainLoop

(* an iteration of main's loop that does not return: turn += 1 *)
Advance == res = None /\ turn' = turn + 1

(* the loop runs on: as long as it has not returned, it goes through its   *)
(* next iteration, which returns or advances the turn                      *)
SpecPlay == Init /\ [][Play]_vars /\ WF_turn(Advance)

(* the same-owner neighbours of cell c *)
count(bd, c) == neighbor_count(bd.cells, c, c % WIDTH, c \div WIDTH)

occupied(bd) == {c \in Idx : bd.cells[c] # 0}
flipped(bd) == {c \in Idx : bd.cells[c] < 0}

(* orthogonal neighbours *)
adjacent(c, d) ==
    Abs((c % WIDTH) - (d % WIDTH)) + Abs((c \div WIDTH) - (d \div WIDTH)) = 1

(* the swaps played so far: every move is a placement, which adds a piece, *)
(* or a swap, which adds none                                              *)
swaps_played == turn - Cardinality(occupied(b))

(* C1: on every board reached from the empty board by legal moves, the     *)
(* incrementally maintained field score equals the recomputation of        *)
(* Board::score from the cells.                                            *)
C1_ScoreIsRecount == b.score = score(b)

(* the score is not 0, and more flipped pieces are without three           *)
(* same-owner neighbours than the swaps played have swapped: one of them   *)
(* was counted in the score and lost a neighbour to a swap                 *)
C1_Witness ==
    /\ b.score # 0
    /\ Cardinality({c \in flipped(b) : count(b, c) < NEIGHBORS}) > 2 * swaps_played

(* C2: on every board reached from the empty board by legal moves, no      *)
(* upright piece has 3 or more same-owner orthogonal neighbours.           *)
C2_NoUprightWithThree ==
    \A c \in Idx : b.cells[c] > 0 => count(b, c) < NEIGHBORS

(* a piece with three same-owner neighbours is there, flipped, next to an  *)
(* upright piece that has two                                              *)
C2_Witness ==
    \E c \in Idx : \E d \in Idx :
        /\ b.cells[c] < 0 /\ count(b, c) >= NEIGHBORS
        /\ b.cells[d] > 0 /\ count(b, d) = NEIGHBORS - 1
        /\ Abs(b.cells[d]) = Abs(b.cells[c])
        /\ adjacent(c, d)

(* C3: a move never changes a cell that holds a flipped piece, so a        *)
(* flipped piece stays a flipped piece of the same player in its cell      *)
(* after every sequence of further moves.                                  *)
C3_FlippedIsFinal ==
    [][\A c \in Idx : b.cells[c] < 0 => b'.cells[c] = b.cells[c]]_vars

(* two swaps were played and four flipped pieces are on the board: the     *)
(* pieces that the first swap flipped are past a later one                 *)
C3_Witness ==
    /\ swaps_played >= 2
    /\ Cardinality(flipped(b)) >= 4

empties(bd) == {c \in Idx : bd.cells[c] = 0}
uprights(bd) == {c \in Idx : bd.cells[c] > 0}
owner(bd, c) == Abs(bd.cells[c])

(* the pairs i < j of cells that both hold upright pieces, and their       *)
(* lexicographic order                                                     *)
upright_pairs(bd) == {q \in uprights(bd) \X uprights(bd) : q[1] < q[2]}
lex_less(r, q) == r[1] < q[1] \/ (r[1] = q[1] /\ r[2] < q[2])

(* C4: for the board and either acting player, Board::moves yields, with E *)
(* empty cells and U upright pieces, E + U*(U-1)/2 successors: first the   *)
(* placement into every empty cell, at the rank of the cell among the      *)
(* empty cells, then the swap of every pair i < j of upright cells, at the *)
(* lexicographic rank of the pair; so no swap when U < 2 and no placement  *)
(* when the board is full.                                                 *)
C4_MovesArePlacementsThenSwaps ==
    \A p \in {0, 1} :
        LET f == moves(b, p)
            E == empties(b)
            U == uprights(b)
            P == upright_pairs(b)
        IN  /\ Len(f) = Cardinality(E) + ((Cardinality(U) * (Cardinality(U) - 1)) \div 2)
            /\ \A c \in E :
                   f[1 + Cardinality({d \in E : d < c})] = place(b, c, p)
            /\ \A q \in P :
                   f[Cardinality(E) + 1 + Cardinality({r \in P : lex_less(r, q)})]
                     = swap(b, q[1], q[2])
            /\ Cardinality(U) < 2 => Len(f) = Cardinality(E)
            /\ E = {} => Len(f) = Cardinality(P)

(* a full board with flipped pieces and three or more upright ones: the    *)
(* generator yields swaps of the upright pieces only                       *)
C4_Witness ==
    /\ empties(b) = {}
    /\ flipped(b) # {}
    /\ Cardinality(uprights(b)) >= 3
    /\ Len(moves(b, turn % 2)) = Cardinality(upright_pairs(b))

(* C5: from the empty board, with player 0 to act, Board::moves yields 25  *)
(* successors; each of them has one occupied cell, which holds an upright  *)
(* piece of player 0, and no two of them occupy the same cell.             *)
C5_EmptyBoardHas25Placements ==
    b = new =>
        LET f == moves(b, 0)
        IN  /\ Len(f) = 25
            /\ \A k \in 1 .. Len(f) :
                   /\ Cardinality(occupied(f[k])) = 1
                   /\ \A c \in occupied(f[k]) : f[k].cells[c] = 1
            /\ \A k \in 1 .. Len(f) : \A n \in 1 .. Len(f) :
                   k # n => occupied(f[k]) # occupied(f[n])

(* player 0 has taken one of the successors of the empty board *)
C5_Witness ==
    /\ turn = 1
    /\ \E k \in 1 .. Len(moves(new, 0)) : b = moves(new, 0)[k]

(* C6: in the successor for the swap of the upright cells i < j both cells *)
(* hold flipped pieces; if the owners differed, cell i holds a piece of    *)
(* the former owner of j and cell j a piece of the former owner of i, and  *)
(* if they were the same both cells keep this owner.                       *)
C6_SwapExchangesAndFlips ==
    \A q \in upright_pairs(b) :
        LET i == q[1]
            j == q[2]
            s == swap(b, i, j)
        IN  /\ s.cells[i] < 0
            /\ s.cells[j] < 0
            /\ IF owner(b, i) # owner(b, j)
               THEN owner(s, i) = owner(b, j) /\ owner(s, j) = owner(b, i)
               ELSE owner(s, i) = owner(b, i) /\ owner(s, j) = owner(b, i)

(* a swap was played, and the board offers a swap of two pieces of         *)
(* different owners and a swap of two pieces of one owner                  *)
C6_Witness ==
    /\ swaps_played >= 1
    /\ \E q \in upright_pairs(b) : owner(b, q[1]) # owner(b, q[2])
    /\ \E q \in upright_pairs(b) : owner(b, q[1]) = owner(b, q[2])

(* C7: in the successor for the placement of player p into the empty cell  *)
(* c, the cell c holds a piece of p, flipped if it has 3 or more           *)
(* same-owner neighbours and upright if not; every other cell keeps its    *)
(* owner or stays empty; the pieces of the other player are unchanged; and *)
(* a cell other than c that changed is an orthogonal neighbour of c that   *)
(* held an upright piece of p and holds it flipped.  The successor is a    *)
(* value computed from the parent, which stays as it is.                   *)
C7_PlacementFrame ==
    \A p \in {0, 1} : \A c \in empties(b) :
        LET s == place(b, c, p)
        IN  /\ s.cells[c] = IF count(s, c) >= NEIGHBORS THEN -(p + 1) ELSE p + 1
            /\ \A d \in Idx \ {c} :
                   /\ owner(s, d) = owner(b, d)
                   /\ owner(b, d) # p + 1 => s.cells[d] = b.cells[d]
                   /\ s.cells[d] # b.cells[d] =>
                          /\ adjacent(c, d)
                          /\ b.cells[d] = p + 1
                          /\ s.cells[d] = -(p + 1)

(* the board offers a placement that comes flipped, and a placement that   *)
(* flips a neighbour                                                       *)
C7_Witness ==
    \E p \in {0, 1} : \E c \in empties(b) : \E e \in empties(b) :
        /\ place(b, c, p).cells[c] < 0
        /\ \E d \in Idx \ {e} : place(b, e, p).cells[d] # b.cells[d]

(* the elements of a sequence *)
Range(f) == {f[k] : k \in 1 .. Len(f)}

(* C8: a call of minimax at depth 0 on a cleared memo table returns no     *)
(* move if and only if Board::moves yields no successor for the board and  *)
(* the player to act, and a move it returns is one of these successors.    *)
C8_TopLevelMoveIsASuccessor ==
    (res # None /\ res[1].depth = 0) =>
        LET f == moves(b, turn % 2)
        IN  /\ res[1].mv = None <=> Len(f) = 0
            /\ res[1].mv # None => res[1].mv[1] \in Range(f)

(* a call at depth 0 has returned a successor that is not the first of     *)
(* several that the generator yields, with a score that the starting       *)
(* value (0, 0.0) of the loop beats for the player to act                  *)
C8_Witness ==
    /\ res # None
    /\ res[1].depth = 0
    /\ res[1].mv # None
    /\ Len(moves(b, turn % 2)) >= 2
    /\ res[1].mv[1] # moves(b, turn % 2)[1]
    /\ turn % 2 = 0
    /\ res[1].val[1] < 0

(* C9: every call of minimax that is answered from the memo table gets an  *)
(* entry that an evaluation with the same player to move has stored, and   *)
(* the move of the entry, if any, is a successor that Board::moves yields  *)
(* for the player to move at the call.                                     *)
C9_MemoEntryIsForThePlayerToMove ==
    res # None =>
        \A h \in res[1].hits :
            /\ h.by.player = h.player
            /\ h.mv # None => h.mv[1] \in Range(moves(h.bd, h.player))

(* minimax without the memo table: the integer score of the best successor *)
(* for the player to move, and the score of the board where the depth      *)
(* limit is reached or the generator yields nothing                        *)
RECURSIVE exhaustive(_, _, _)
exhaustive(bd, player, depth) ==
    LET f == moves(bd, player)
        v == {exhaustive(f[k], xor1(player), depth + 1) : k \in 1 .. Len(f)}
    IN  IF depth >= DEPTH_LIMIT \/ Len(f) = 0 THEN bd.score
        ELSE IF player = 0 THEN CHOOSE x \in v : \A y \in v : y <= x
        ELSE CHOOSE x \in v : \A y \in v : x <= y

(* C10: a search of at most 3 plies returns, as the integer component of   *)
(* its score, the best score of the exhaustive search of the same depth    *)
(* without memo table.                                                     *)
C10_SearchEqualsExhaustive ==
    (res # None /\ DEPTH_LIMIT - res[1].depth <= 3) =>
        res[1].val[1] = exhaustive(b, turn % 2, res[1].depth)


(* the pieces of a player, upright or flipped; player 0 holds the cells    *)
(* of absolute value 1, player 1 those of absolute value 2                 *)
owned(bd, player) == {c \in Idx : Abs(bd.cells[c]) = player + 1}

(* the per-player score the specification describes *)
score_one_player(bd, player) ==
    1000 * Cardinality({c \in owned(bd, player) : count(bd, c) >= 3})
    + Cardinality({c \in owned(bd, player) : count(bd, c) >= 2})

(* C11: the position score of a board is score_one_player of player 0      *)
(* minus score_one_player of player 1, where score_one_player is 1000      *)
(* times the number of the player's cells with at least 3 same-owner       *)
(* neighbours plus the number of those with at least 2.  Board::score      *)
(* adds 1 for each flipped piece of player 0 with at least 3 neighbours    *)
(* and subtracts 1 for each such piece of player 1, so the two differ as   *)
(* soon as a piece has two neighbours of its owner.                        *)
C11_ScoreIsThousandsAndPairs ==
    score(b) = score_one_player(b, 0) - score_one_player(b, 1)

(* the board with the two players' pieces exchanged: 1 <-> 2, -1 <-> -2 *)
exchanged(bd) ==
    [bd EXCEPT !.cells = [c \in Idx |-> IF bd.cells[c] > 0 THEN 3 - bd.cells[c]
                                        ELSE IF bd.cells[c] < 0 THEN -3 - bd.cells[c]
                                        ELSE 0]]

(* C12: the score of the board with the two players' pieces exchanged is   *)
(* the negation of the score of the board, and the empty board scores 0.   *)
C12_ScoreSymmetry ==
    /\ score(exchanged(b)) = -score(b)
    /\ score(new) = 0

(* a board on which player 0 is ahead, with scoring pieces of both players *)
C12_Witness ==
    /\ score(b) > 0
    /\ scoring(b.cells, -2) # {}
    /\ score(exchanged(b)) < 0

(* s is strictly better than t for the player to move, in the order of the *)
(* pairs (integer score, average) that the loop of minimax compares        *)
better_for(player, s, t) == IF player = 0 THEN tuple_lt(t, s) ELSE tuple_lt(s, t)

(* the record of the node at which the call r started *)
root(r) == CHOOSE n \in r.nodes : n.depth = r.depth

(* C13: a second call of minimax at depth 0 on a cleared memo table, for   *)
(* the same board and player, returns the same move and value as the call  *)
(* recorded; the move is the successor the loop picked, no successor's     *)
(* returned pair is better for the player than the picked one's, and no    *)
(* successor generated before the picked one returned the same pair (of    *)
(* equally good successors the earliest is kept).                          *)
C13_SearchIsDeterministic ==
    (res # None /\ res[1].depth = 0) =>
        LET p == turn % 2
            f == moves(b, p)
            same(again) == again.mv = res[1].mv /\ again.val = res[1].val
            n == root(res[1])
        IN  /\ same(search(b, p, 0))
            /\ res[1].mv # None =>
                   /\ n.pick \in 1 .. Len(f)
                   /\ res[1].mv[1] = f[n.pick]
                   /\ \A j \in 1 .. Len(f) : ~better_for(p, n.vals[j], n.vals[n.pick])
                   /\ \A j \in 1 .. (n.pick - 1) : n.vals[j] # n.vals[n.pick]

(* a call at depth 0 has picked a successor that is not the first, and a   *)
(* successor generated after it returned the same pair                     *)
C13_Witness ==
    /\ res # None
    /\ res[1].depth = 0
    /\ res[1].mv # None
    /\ root(res[1]).pick > 1
    /\ \E j \in (root(res[1]).pick + 1) .. Len(root(res[1]).vals) :
           root(res[1]).vals[j] = root(res[1]).vals[root(res[1]).pick]

(* C14: for every board reached and either player, Board::moves yields     *)
(* nothing if and only if the board has no empty cell and fewer than 2     *)
(* upright pieces; a board with an empty cell has a successor.             *)
C14_NoMoveIffFullAndNoPair ==
    \A p \in {0, 1} :
        /\ Len(moves(b, p)) = 0 <=>
               (empties(b) = {} /\ Cardinality(uprights(b)) < 2)
        /\ empties(b) # {} => Len(moves(b, p)) > 0

(* a full board with fewer than 2 upright pieces, on which Board::moves    *)
(* yields nothing                                                          *)
C14_Witness ==
    /\ empties(b) = {}
    /\ Cardinality(uprights(b)) < 2
    /\ Len(moves(b, turn % 2)) = 0

(* the integer score s is strictly better than t for the player *)
int_better(player, s, t) == IF player = 0 THEN s > t ELSE s < t

(* C15: at every node that a call of minimax has searched (not answered    *)
(* from the memo table or at the depth limit) and that has a successor,    *)
(* the integer score returned is the integer score returned for the        *)
(* successor picked, and no successor's returned integer score is strictly *)
(* better for the player to move.                                          *)
C15_ReturnedScoreIsTheBestSuccessors ==
    res # None =>
        \A n \in res[1].nodes :
            Len(n.vals) > 0 =>
                /\ n.pick \in 1 .. Len(n.vals)
                /\ n.mv # None
                /\ n.val[1] = n.vals[n.pick][1]
                /\ \A j \in 1 .. Len(n.vals) :
                       ~int_better(n.player, n.vals[j][1], n.val[1])

(* a searched node below the root whose successors returned different      *)
(* integer scores and whose picked successor is not the first              *)
C15_Witness ==
    /\ res # None
    /\ \E n \in res[1].nodes :
           /\ n.depth > res[1].depth
           /\ n.pick > 1
           /\ \E j \in 1 .. Len(n.vals) : n.vals[j][1] # n.val[1]

(* the pair minimax returns at a leaf: the board's score and its f32 *)
static_pair(bd) == <<bd.score, f32_from(bd.score)>>

(* C16: a node below the depth limit for which Board::moves yields nothing *)
(* is a leaf: the division of the sum 0.0 by the count 0 gives the f32     *)
(* that is not a number (no panic), and minimax returns the board's score  *)
(* with no move and stores this pair under the board's hash; a call at     *)
(* depth 0 that returns no move ends main's loop, the board and the turn   *)
(* stay as they are.                                                       *)
C16_NoSuccessorIsALeaf ==
    res # None =>
        /\ \A n \in res[1].nodes :
               Len(n.vals) = 0 =>
                   /\ n.depth < DEPTH_LIMIT
                   /\ n.avg = NaN
                   /\ n.mv = None
                   /\ n.val = <<n.score, f32_from(n.score)>>
        /\ Len(moves(b, turn % 2)) = 0 =>
               /\ res[1].mv = None
               /\ res[1].val = static_pair(b)
               /\ res[1].memo # None
               /\ res[1].memo[1].val = static_pair(b)
               /\ res[1].memo[1].mv = None
        /\ (res[1].depth = 0 /\ res[1].mv = None) =>
               /\ Len(moves(b, turn % 2)) = 0
               /\ ~ENABLED NextSearch

(* main's loop has returned on a board of non-zero score for which         *)
(* Board::moves yields nothing                                             *)
C16_Witness ==
    /\ res # None
    /\ res[1].depth = 0
    /\ res[1].mv = None
    /\ Len(moves(b, turn % 2)) = 0
    /\ b.score # 0
    /\ res[1].memo = Some([val |-> static_pair(b), mv |-> None,
                           by |-> [player |-> turn % 2, depth |-> 0]])

(* C17: Board::update(mod_idx, idx, ..), with either value of new_place,   *)
(* and Board::update_delete(mod_idx, idx, ..) leave the cells and the      *)
(* score as they are whenever the owner of cell idx is not the owner of    *)
(* cell mod_idx, an empty cell idx beside an occupied cell mod_idx         *)
(* included.                                                               *)
C17_OtherOwnerIsNoOp ==
    \A mod_idx \in Idx : \A idx \in Idx :
        owner(b, idx) # owner(b, mod_idx) =>
            /\ \A new_place \in BOOLEAN :
                   update(b, mod_idx, idx, idx % WIDTH, idx \div WIDTH, new_place) = b
            /\ update_delete(b, mod_idx, idx, idx % WIDTH, idx \div WIDTH) = b

(* a board with an upright piece beside a piece of the other player that   *)
(* has exactly three neighbours of its own, and with an empty cell beside  *)
(* an occupied one                                                         *)
C17_Witness ==
    /\ \E mod_idx \in uprights(b) : \E idx \in occupied(b) :
           /\ adjacent(mod_idx, idx)
           /\ owner(b, idx) # owner(b, mod_idx)
           /\ count(b, idx) = NEIGHBORS
    /\ \E mod_idx \in occupied(b) : \E idx \in empties(b) : adjacent(mod_idx, idx)

(* the occupied cells plus the flipped cells of a board *)
measure(bd) == Cardinality(occupied(bd)) + Cardinality(flipped(bd))

(* main's loop has returned: the call at depth 0 found no move *)
Stopped == res # None /\ res[1].depth = 0 /\ res[1].mv = None

(* C18: every move (a step that advances the turn) strictly increases the  *)
(* number of occupied cells plus the number of flipped cells, which is at  *)
(* most 50 and at least the number of moves played; and every play goes on *)
(* to a full board with fewer than 2 upright pieces, for which             *)
(* Board::moves yields nothing, where main's loop returns.                 *)
C18_EveryPlayTerminates ==
    /\ [][turn' # turn => measure(b') > measure(b)]_vars
    /\ [](turn <= measure(b) /\ measure(b) <= 2 * NCells)
    /\ <>(/\ Stopped
          /\ empties(b) = {}
          /\ Cardinality(uprights(b)) < 2
          /\ Len(moves(b, turn % 2)) = 0)

(* main's loop has returned on a full board after placements and swaps *)
C18_Witness ==
    /\ Stopped
    /\ empties(b) = {}
    /\ turn > NCells
    /\ measure(b) > turn

(* the number of pieces of a player *)
pieces(bd, player) == Cardinality(owned(bd, player))

(* C19: a placement by the player to act adds exactly the placed cell to   *)
(* that player's cells and leaves the other player's cells as they are; a  *)
(* swap leaves the number of pieces of both players as it is and changes   *)
(* owners on the two swapped cells at most; no occupied cell becomes       *)
(* empty; so, from the empty board on, a player has as many pieces as that *)
(* player has placed, never more than the moves that player has made.      *)
C19_PiecesAreConserved ==
    /\ [][/\ Place =>
               LET p == turn % 2
               IN  /\ pieces(b', p) = pieces(b, p) + 1
                   /\ owned(b, p) \subseteq owned(b', p)
                   /\ owned(b', p) \ owned(b, p) \subseteq empties(b)
                   /\ owned(b', 1 - p) = owned(b, 1 - p)
          /\ Swap =>
               /\ \A p \in {0, 1} : pieces(b', p) = pieces(b, p)
               /\ Cardinality({c \in Idx : owner(b', c) # owner(b, c)}) \in {0, 2}
               /\ occupied(b') = occupied(b)
          /\ \A c \in Idx : b.cells[c] # 0 => b'.cells[c] # 0]_vars
    /\ [](/\ pieces(b, 0) + pieces(b, 1) = Cardinality(occupied(b))
          /\ pieces(b, 0) <= (turn + 1) \div 2
          /\ pieces(b, 1) <= turn \div 2)

(* a board after placements of both players and a swap that has exchanged  *)
(* the owners of two cells                                                 *)
C19_Witness ==
    /\ swaps_played > 0
    /\ pieces(b, 0) >= 2
    /\ pieces(b, 1) >= 2
    /\ \E c \in flipped(b) : \E d \in flipped(b) :
           adjacent(c, d) /\ owner(b, c) # owner(b, d) /\ count(b, c) < NEIGHBORS

(* the cells that a hash value h stands for: h as 25 octal digits, each    *)
(* less 2                                                                  *)
unhash(h) ==
    [c \in Idx |-> IF c + 1 > NCells - Len(h) THEN h[c + 1 - (NCells - Len(h))] - 2
                   ELSE -2]

(* the boards whose hashes are compared: the board and its successors for  *)
(* either player                                                           *)
near(bd) == {bd} \cup Range(moves(bd, 0)) \cup Range(moves(bd, 1))

(* C20: Board::hash packs the 25 cells as 3-bit digits cell + 2 in 0 .. 4  *)
(* into at most 75 bits, nothing is lost beyond bit 127, and the cells can *)
(* be read back from the hash; so two boards have the same hash if and     *)
(* only if their cells are the same, and the score field and the player to *)
(* move are not part of the key.                                           *)
C20_HashIsCollisionFree ==
    /\ \A n \in near(b) :
           /\ Len(hash(n)) <= NCells
           /\ \A k \in 1 .. Len(hash(n)) : hash(n)[k] \in 0 .. 4
           /\ unhash(hash(n)) = n.cells
           /\ hash([n EXCEPT !.score = n.score + 1]) = hash(n)
    /\ \A n \in near(b) : \A o \in near(b) :
           hash(n) = hash(o) <=> n.cells = o.cells
    /\ res # None =>
           \A h \in res[1].hits : hash(h.bd) \in Seq(0 .. 4)

(* a board whose first cell holds a piece (a digit other than 0 in the     *)
(* highest of the 75 bits), with several successors, on which a search was *)
(* answered from the memo table for the other player to move               *)
C20_Witness ==
    /\ b.cells[0] # 0
    /\ Len(hash(b)) = NCells
    /\ Cardinality(near(b)) > 2
    /\ res # None
    /\ \E h \in res[1].hits : h.by.player # h.player

====
